---- MODULE Spec2Model ----
(***************************************************************************)
(* A model of the debate bot (streed/jb-debate):                           *)
(*   - the DebateManager session registry and turn processing             *)
(*     (src/services/debateManager.js) driven by the Discord message      *)
(*     handlers (src/index.js);                                            *)
(*   - splitMessage (src/index.js);                                        *)
(*   - condenseIfNeeded and chatWithTools (src/services/ollama.js).        *)
(* Texts are sequences of one-character strings, so that trimming,         *)
(* searching, replacing and cutting are computed as JavaScript does.       *)
(***************************************************************************)
EXTENDS Integers, Sequences, FiniteSets, TLC

VARIABLES debates, heap, timers, tasks, events, last, hist, typing, sp, cd,
          ch, tl, fm, tr

sessionVars == <<debates, heap, timers, tasks, events, last, hist, typing>>

vars == <<sessionVars, sp, cd, ch, tl, fm, tr>>

(***************************************************************************)
(* JavaScript string primitives                                            *)
(***************************************************************************)

Min(a, b) == IF a < b THEN a ELSE b

Max(a, b) == IF a > b THEN a ELSE b

Clamp(i, n) == Max(0, Min(i, n))

SetMax(S) == CHOOSE x \in S : \A y \in S : y <= x

SetMin(S) == CHOOSE x \in S : \A y \in S : x <= y

\* All texts over alphabet A of length 0..n.
TextsOver(A, n) == UNION {[1..k -> A] : k \in 0..n}

\* The characters String.prototype.trim removes (of those the model uses).
IsWs(c) == c \in {" ", "\n"}

RECURSIVE TrimStart(_)
TrimStart(s) ==
  IF s = <<>> THEN s
  ELSE IF IsWs(Head(s)) THEN TrimStart(Tail(s)) ELSE s

RECURSIVE TrimEnd(_)
TrimEnd(s) ==
  IF s = <<>> THEN s
  ELSE IF IsWs(s[Len(s)]) THEN TrimEnd(SubSeq(s, 1, Len(s) - 1)) ELSE s

\* String.prototype.trim
Trim(s) == TrimEnd(TrimStart(s))

\* String.prototype.substring(start, end): both indices clamped to
\* [0, length], swapped when start > end; 0-based, end exclusive.
Substring(s, start, end) ==
  LET a == Clamp(start, Len(s))
      b == Clamp(end, Len(s))
  IN SubSeq(s, Min(a, b) + 1, Max(a, b))

\* String.prototype.substring(start)
SubstringFrom(s, start) == Substring(s, start, Len(s))

\* pat occurs in s at the 0-based index i
MatchesAt(s, pat, i) ==
  /\ i >= 0
  /\ i + Len(pat) <= Len(s)
  /\ \A k \in 1..Len(pat) : s[i + k] = pat[k]

\* String.prototype.lastIndexOf(pat, fromIndex): the greatest index
\* <= fromIndex at which pat occurs, -1 when there is none.
LastIndexOf(s, pat, fromIndex) ==
  LET hits == {i \in 0..Clamp(fromIndex, Len(s)) : MatchesAt(s, pat, i)}
  IN IF hits = {} THEN -1 ELSE SetMax(hits)

\* String.prototype.indexOf(pat)
IndexOf(s, pat) ==
  LET hits == {i \in 0..Len(s) : MatchesAt(s, pat, i)}
  IN IF hits = {} THEN -1 ELSE SetMin(hits)

\* String.prototype.includes(pat)
Includes(s, pat) == \E i \in 0..(Len(s) - Len(pat)) : MatchesAt(s, pat, i)

\* String.prototype.replace(pat, rep) with a string pattern: the FIRST
\* occurrence only.
ReplaceFirst(s, pat, rep) ==
  LET i == IndexOf(s, pat)
  IN IF i = -1 THEN s
     ELSE SubSeq(s, 1, i) \o rep \o SubSeq(s, i + Len(pat) + 1, Len(s))

RECURSIVE Flatten(_)
Flatten(ss) == IF ss = <<>> THEN <<>> ELSE Head(ss) \o Flatten(Tail(ss))

RECURSIVE StripWs(_)
StripWs(s) ==
  IF s = <<>> THEN <<>>
  ELSE IF IsWs(Head(s)) THEN StripWs(Tail(s))
       ELSE <<Head(s)>> \o StripWs(Tail(s))

(***************************************************************************)
(* DebateManager (src/services/debateManager.js)                           *)
(***************************************************************************)

MaxTurns == 3

MaxTimers == 2

\* The last reading of the clock.
MaxClock == 1

\* How many generateResponse calls a run of one-at-a-time calls makes.
MaxCalls == 2

FALLACY_THRESHOLD == 3

MIN_RESPONSE_LENGTH == 20

\* if (debate.opponentInactiveCount >= 2)
WEAK_LIMIT == 2

ThreadIds == {"th1", "th2"}

\* thread.id of the thread message.startThread makes for the o-th debate:
\* the platform never gives one id to two threads.
ThreadOf == <<"th1", "th2">>

\* The ids the manager's calls are made with when run one at a time.
MgrIds == {"th1"}

\* The session objects createDebate can allocate.
Objs == {1, 2}

TaskIds == {1, 2}

Authors == {"ann", "bob"}

\* Who starts debates.
Starters == {"ann"}

VictoryMarker == <<"[", "V", "I", "C", "T", "O", "R", "Y", "]">>

Sentinel ==
  <<"N", "o", " ", "s", "i", "g", "n", "i", "f", "i", "c", "a", "n", "t",
  " ", "f", "a", "l", "l", "a", "c", "i", "e", "s">>

\* Opponent messages.
MsgOk == <<"o", "k">>

MsgOkPadded ==
  <<" ", " ", "O", "K", " ", " ", " ", " ", " ", " ", " ", " ", " ", " ",
  " ", " ", " ", " ", " ", " ", " ", " ">>

MsgShort == <<"n", "o", "p", "e", ",", " ", "w", "r", "o", "n", "g">>

MsgLong ==
  <<"T", "a", "x", "e", "s", " ", "f", "u", "n", "d", " ", "t", "h", "e",
  " ", "r", "o", "a", "d", "s", " ", "w", "e", " ", "u", "s", "e", ".">>

MsgShortPadded ==
  <<"n", "o", " ", " ", " ", " ", " ", " ", " ", " ", " ", " ", " ", " ",
  " ", " ", " ", " ", " ", " ", " ">>

\* The opponent messages of the turns.
Messages == {MsgOk, MsgLong}

\* What analyzeForFallacies can return: null (the call failed), or the
\* content of the model's answer, which may be empty.
VerdictClean == Sentinel \o <<" ", "d", "e", "t", "e", "c", "t", "e", "d", ".">>

VerdictFallacies ==
  <<"A", "d", " ", "h", "o", "m", "i", "n", "e", "m", ".", " ", "S", "t",
  "r", "a", "w", "m", "a", "n", ".", " ", "R", "e", "d", " ", "h", "e",
  "r", "r", "i", "n", "g", ".">>

\* What ollama.chat does for the analysis: it throws, or it answers, with
\* or without a content; the content may be empty.
AnalysisReplies ==
  { [threw |-> TRUE, present |-> FALSE, content |-> <<>>],
    [threw |-> FALSE, present |-> FALSE, content |-> <<>>],
    [threw |-> FALSE, present |-> TRUE, content |-> <<>>],
    [threw |-> FALSE, present |-> TRUE, content |-> VerdictClean],
    [threw |-> FALSE, present |-> TRUE, content |-> VerdictFallacies] }

NoVerdict == [present |-> FALSE, content |-> <<>>]

\* analyzeForFallacies: the content of the answer; null when the call, or
\* reading a content that is not there, throws.
analyzeForFallacies(reply) ==
  IF ~reply.threw /\ reply.present
  THEN [present |-> TRUE, content |-> reply.content]
  ELSE NoVerdict

Verdicts == {analyzeForFallacies(reply) : reply \in AnalysisReplies}

\* What generateDebateResponse can return.
GenPlain == <<"N", "o", "p", "e", ".">>

GenVictory ==
  <<"Y", "o", "u", " ", "w", "i", "n", ".", " ", "[", "V", "I", "C", "T",
  "O", "R", "Y", "]">>

GenTwoMarkers ==
  <<"[", "V", "I", "C", "T", "O", "R", "Y", "]", " ", "D", "o", "n", "e",
  ".", " ", "[", "V", "I", "C", "T", "O", "R", "Y", "]">>

Generated == {GenPlain, GenVictory, GenTwoMarkers}

\* What generateOpeningArgument can return.
Openings == {GenPlain, GenVictory}

\* The opponent messages of the calls made one at a time.
MgrMessages == {MsgOkPadded, MsgShortPadded}

\* String.prototype.toLowerCase, on the letters the messages use.
LowerChar(c) == IF c = "O" THEN "o" ELSE IF c = "K" THEN "k" ELSE c

ToLowerCase(s) == [i \in 1..Len(s) |-> LowerChar(s[i])]

\* /^(ok|okay|sure|whatever|fine|lol|lmao|idk|nah)$/i,
\* /^(i don'?t care|i give up|you win|nevermind)$/i, /^(haha|hehe|rofl|...)$/i
PatternTokens ==
  { <<"o", "k">>, <<"o", "k", "a", "y">>, <<"s", "u", "r", "e">>,
    <<"w", "h", "a", "t", "e", "v", "e", "r">>, <<"f", "i", "n", "e">>,
    <<"l", "o", "l">>, <<"l", "m", "a", "o">>, <<"i", "d", "k">>,
    <<"n", "a", "h">>,
    <<"i", " ", "d", "o", "n", "t", " ", "c", "a", "r", "e">>,
    <<"i", " ", "d", "o", "n", "'", "t", " ", "c", "a", "r", "e">>,
    <<"i", " ", "g", "i", "v", "e", " ", "u", "p">>,
    <<"y", "o", "u", " ", "w", "i", "n">>,
    <<"n", "e", "v", "e", "r", "m", "i", "n", "d">>,
    <<"h", "a", "h", "a">>, <<"h", "e", "h", "e">>, <<"r", "o", "f", "l">> }

\* /^xd+$/ (an alternative of the third pattern)
IsXd(s) == Len(s) >= 2 /\ s[1] = "x" /\ \A i \in 2..Len(s) : s[i] = "d"

\* /^\.+$/
IsDots(s) == Len(s) >= 1 /\ \A i \in 1..Len(s) : s[i] = "."

isNonSubstantive(message) ==
  \/ message = <<>>
  \/ Len(message) < MIN_RESPONSE_LENGTH
  \/ LET m == Trim(ToLowerCase(message))
     IN m \in PatternTokens \/ IsXd(m) \/ IsDots(m)

\* this.isNonSubstantive(opponentMessage) for each message a turn can carry,
\* computed once.
Classified ==
  [m \in Messages \cup MgrMessages \cup {MsgShort} |-> isNonSubstantive(m)]

\* opponentInactiveCount after the classification of the opponent message
InactiveAfterNeverResets(count, message) ==
  IF Classified[message] THEN count + 1 ELSE count

InactiveAfter(count, message) ==
  IF Classified[message] THEN count + 1 ELSE 0

\* fallacyAnalysis && !fallacyAnalysis.includes('No significant fallacies')
FallacyFoundCountsEmpty(verdict) ==
  verdict.present /\ ~Includes(verdict.content, Sentinel)

FallacyFoundCountsAbsent(verdict) ==
  \/ ~verdict.present
  \/ verdict.content # <<>> /\ ~Includes(verdict.content, Sentinel)

FallacyFound(verdict) ==
  /\ verdict.present
  /\ verdict.content # <<>>
  /\ ~Includes(verdict.content, Sentinel)

\* The test of line 59 for each verdict the analysis can return, computed
\* once.
Found == [v \in Verdicts |-> FallacyFound(v)]

\* if (debate.fallacyCount >= FALLACY_THRESHOLD) debate.status = 'won';
StatusAfterAnalysisAlways(status, fallacyCount) == "won"

StatusAfterAnalysisStrict(status, fallacyCount) ==
  IF fallacyCount > FALLACY_THRESHOLD THEN "won" ELSE status

StatusAfterAnalysis(status, fallacyCount) ==
  IF fallacyCount >= FALLACY_THRESHOLD THEN "won" ELSE status

\* response.replace('[VICTORY]', '').trim() when the marker is included
StripVictory(response) ==
  IF Includes(response, VictoryMarker)
  THEN Trim(ReplaceFirst(response, VictoryMarker, <<>>))
  ELSE response

\* What the turn returns for each text the generator can return, computed
\* once.
Returned == [g \in Generated |-> StripVictory(g)]

\* response.includes('[VICTORY]') for each text the generator can return
HasVictory == [g \in Generated |-> Includes(g, VictoryMarker)]

StatusAfterResponse(status, response) ==
  IF HasVictory[response] THEN "won" ELSE status

FreeDebate == [status |-> "free", participantId |-> "", fallacyCount |-> 0,
               opponentInactiveCount |-> 0, lastActivity |-> 0]

\* Date.now(): the clock is read in units of the opponent turns received so
\* far, and stops at MaxClock.
Clock(n) == Min(n, MaxClock)

Now == Clock(events)

\* debate.lastActivity = Date.now();
TouchedNot(d, now) == d

Touched(d, now) == [d EXCEPT !.lastActivity = now]

\* stale records that endDebate ran on the task's session while the task
\* was awaiting generateDebateResponse.
IdleTask == [pc |-> "idle", thread |-> "", obj |-> 0, author |-> "",
             msg |-> <<>>, stale |-> FALSE]

\* A record of the call of the manager just made: what the remote calls
\* answered and what the call returned.  It is kept where calls run one at a
\* time, and stays NoLast where handlers interleave.
NoLast == [op |-> "none", thread |-> "", obj |-> 0, raised |-> FALSE,
           message |-> <<>>, verdict |-> NoVerdict, gen |-> <<>>,
           returned |-> <<>>]

\* createDebate: a new session object, stored under threadId whatever the
\* map held there.
createDebate(o, threadId, participantId) ==
  /\ heap' = [heap EXCEPT ![o] = [FreeDebate EXCEPT
                                    !.status = "active",
                                    !.participantId = participantId,
                                    !.lastActivity = Now]]
  /\ debates' = [debates EXCEPT ![threadId] = o]

\* getDebate(threadId): the session under threadId, 0 when there is none
getDebate(threadId) == debates[threadId]

\* getActiveDebates(): the ids of the entries whose status is active
getActiveDebates ==
  {threadId \in ThreadIds :
     debates[threadId] # 0 /\ heap[debates[threadId]].status = "active"}

\* endDebate(threadId): the session the map holds under threadId, if any,
\* becomes ended and a timer is set that will delete the key.
endDebate(threadId) ==
  IF debates[threadId] # 0
  THEN /\ timers[threadId] < MaxTimers
       /\ heap' = [heap EXCEPT ![debates[threadId]].status = "ended"]
       /\ timers' = [timers EXCEPT ![threadId] = @ + 1]
  ELSE UNCHANGED <<heap, timers>>

\* setTimeout(() => this.debates.delete(threadId), 3600000) fires
TimerFire(threadId) ==
  /\ timers[threadId] > 0
  /\ timers' = [timers EXCEPT ![threadId] = @ - 1]
  /\ debates' = [debates EXCEPT ![threadId] = 0]
  /\ last' = NoLast
  /\ UNCHANGED <<heap, tasks, events, hist, sp, cd, ch, tl, typing, fm, tr>>

(***************************************************************************)
(* The calls of the DebateManager, each run to completion before the next  *)
(***************************************************************************)

\* createDebate(threadId, participantId, subject)
MgrCreateDebate(threadId, participantId) ==
  /\ \E o \in Objs :
       /\ heap[o].status = "free"
       /\ \A q \in Objs : heap[q].status = "free" => o <= q
       /\ createDebate(o, threadId, participantId)
       /\ last' = [NoLast EXCEPT !.op = "create", !.thread = threadId,
                                 !.obj = o]
  /\ UNCHANGED <<timers, tasks, events, hist, sp, cd, ch, tl, typing, fm, tr>>

\* endDebate(threadId) on a present or an absent id
MgrEndDebate(threadId) ==
  /\ endDebate(threadId)
  /\ last' = [NoLast EXCEPT !.op = "end", !.thread = threadId,
                            !.obj = debates[threadId]]
  /\ UNCHANGED <<debates, tasks, events, hist, sp, cd, ch, tl, typing, fm, tr>>

\* generateResponse(debate, null, true) returning the opening
MgrOpening(o) ==
  /\ heap[o].status # "free"
  /\ heap' = [heap EXCEPT ![o] = Touched(heap[o], Now)]
  /\ \E gen \in Openings :
       last' = [NoLast EXCEPT !.op = "opening", !.obj = o, !.gen = gen,
                              !.returned = gen]
  /\ UNCHANGED <<debates, timers, tasks, events, hist, sp, cd, ch, tl, typing, fm, tr>>

\* generateResponse(debate, null, true) when generateOpeningArgument throws
MgrOpeningFails(o) ==
  /\ heap[o].status # "free"
  /\ heap' = [heap EXCEPT ![o] = Touched(heap[o], Now)]
  /\ last' = [NoLast EXCEPT !.op = "opening", !.obj = o, !.raised = TRUE]
  /\ UNCHANGED <<debates, timers, tasks, events, hist, sp, cd, ch, tl, typing, fm, tr>>

\* The session after the scoring of generateResponse(debate, message, false):
\* the classification of the message, then the fallacy analysis.
Scored(d, message, verdict) ==
  LET n == IF Found[verdict] THEN d.fallacyCount + 1
           ELSE d.fallacyCount
  IN [d EXCEPT
        !.opponentInactiveCount = InactiveAfter(d.opponentInactiveCount, message),
        !.fallacyCount = n,
        !.status = StatusAfterAnalysis(d.status, n)]

\* generateResponse(debate, message, false) returning a text
MgrTurn(o, message) ==
  /\ heap[o].status # "free"
  /\ events < MaxCalls
  /\ \E verdict \in Verdicts, gen \in Generated :
       LET d == Scored(Touched(heap[o], Clock(events + 1)), message, verdict)
       IN /\ heap' = [heap EXCEPT
                 ![o] = [d EXCEPT !.status = StatusAfterResponse(d.status, gen)]]
          /\ last' = [NoLast EXCEPT !.op = "turn", !.obj = o,
                                    !.message = message,
                                    !.verdict = verdict, !.gen = gen,
                                    !.returned = Returned[gen]]
  /\ hist' = [hist EXCEPT ![o] = Append(@, Classified[message])]
  /\ events' = events + 1
  /\ UNCHANGED <<debates, timers, tasks, sp, cd, ch, tl, typing, fm, tr>>

\* generateResponse(debate, message, false) when generateDebateResponse
\* throws: the scoring is done, nothing is returned
MgrTurnFails(o, message) ==
  /\ heap[o].status # "free"
  /\ events < MaxCalls
  /\ \E verdict \in Verdicts :
       /\ heap' = [heap EXCEPT
              ![o] = Scored(Touched(heap[o], Clock(events + 1)), message, verdict)]
       /\ last' = [NoLast EXCEPT !.op = "turnFailed", !.obj = o,
                                 !.message = message,
                                 !.raised = TRUE, !.verdict = verdict]
  /\ hist' = [hist EXCEPT ![o] = Append(@, Classified[message])]
  /\ events' = events + 1
  /\ UNCHANGED <<debates, timers, tasks, sp, cd, ch, tl, typing, fm, tr>>

(***************************************************************************)
(* The message handlers (src/index.js).  Every await is a point where the  *)
(* handler of another message may run; a task is one handler invocation.   *)
(***************************************************************************)

\* A handler invocation takes the first free task.
FreeTask(t) ==
  /\ tasks[t].pc = "idle"
  /\ \A u \in TaskIds : tasks[u].pc = "idle" => t <= u

\* startDebate up to the await of generateResponse (isOpening): the thread
\* exists, createDebate has run, the greeting is sent, the typing interval
\* runs.
StartDebate(t, author) ==
  /\ FreeTask(t)
  /\ \E o \in Objs :
       /\ heap[o].status = "free"
       /\ \A q \in Objs : heap[q].status = "free" => o <= q
       /\ createDebate(o, ThreadOf[o], author)
       /\ tasks' = [tasks EXCEPT ![t] = [IdleTask EXCEPT
                      !.pc = "greeting", !.thread = ThreadOf[o], !.obj = o,
                      !.author = author]]
  /\ last' = NoLast
  /\ UNCHANGED <<timers, events, hist, sp, cd, ch, tl, typing, fm, tr>>

\* the greeting is sent: setInterval starts the typing interval; the handler
\* awaits generateResponse(debate, null, true)
GreetingDone(t) ==
  /\ tasks[t].pc = "greeting"
  /\ tasks' = [tasks EXCEPT ![t].pc = "opening"]
  /\ typing' = typing + 1
  /\ last' = NoLast
  /\ UNCHANGED <<debates, heap, timers, events, hist, sp, cd, ch, tl, fm, tr>>

\* sending the greeting throws: catch: the failure reply is sent; return
GreetingFail(t) ==
  /\ tasks[t].pc = "greeting"
  /\ tasks' = [tasks EXCEPT ![t] = IdleTask]
  /\ last' = NoLast
  /\ UNCHANGED <<debates, heap, timers, events, hist, sp, cd, ch, tl, typing, fm, tr>>

\* generateOpeningArgument returns: finally clearInterval; the opening is
\* delivered (or its send fails and the failure reply is sent); return
OpeningDone(t) ==
  /\ tasks[t].pc = "opening"
  /\ tasks' = [tasks EXCEPT ![t] = IdleTask]
  /\ typing' = typing - 1
  /\ last' = NoLast
  /\ UNCHANGED <<debates, heap, timers, events, hist, sp, cd, ch, tl, fm, tr>>

\* generateOpeningArgument throws: finally clearInterval, then catch: the
\* failure reply is sent; return
OpeningFail(t) ==
  /\ tasks[t].pc = "opening"
  /\ tasks' = [tasks EXCEPT ![t] = IdleTask]
  /\ typing' = typing - 1
  /\ last' = NoLast
  /\ UNCHANGED <<debates, heap, timers, events, hist, sp, cd, ch, tl, fm, tr>>

IsParticipantAnyone(o, author) == o # 0

\* debate && debate.participantId === message.author.id, for the session o
\* that getDebate(message.channel.id) returned (0 when there is none)
IsParticipant(o, author) == o # 0 /\ heap[o].participantId = author

\* messageCreate for a message of the session's participant in the session's
\* thread: handleDebateMessage starts the typing interval and awaits the
\* thread history.
MessageTurn(t, threadId, author, msg) ==
  /\ FreeTask(t)
  /\ events < MaxTurns
  /\ IsParticipant(getDebate(threadId), author)
  /\ tasks' = [tasks EXCEPT ![t] = [IdleTask EXCEPT
                 !.pc = "fetch", !.thread = threadId,
                 !.obj = debates[threadId], !.author = author,
                 !.msg = msg]]
  /\ events' = events + 1
  /\ typing' = typing + 1
  /\ last' = NoLast
  /\ UNCHANGED <<debates, heap, timers, hist, sp, cd, ch, tl, fm, tr>>

\* The messages that start no turn: one of a bot, one of a member who is
\* not the participant, one of the participant in a thread that may have no
\* session.
OtherMessages ==
  {[thread |-> "th1", author |-> "ann", bot |-> TRUE],
   [thread |-> "th1", author |-> "bob", bot |-> FALSE],
   [thread |-> "th2", author |-> "ann", bot |-> FALSE]}

\* messageCreate for a bot-authored message, or in a thread without a
\* session, or by someone who is not the participant: no turn.  Like every
\* handler invocation it needs a free task.
MessageOther(threadId, author, bot) ==
  /\ \E t \in TaskIds : FreeTask(t)
  /\ ~(~bot /\ IsParticipant(getDebate(threadId), author))
  /\ last' = NoLast
  /\ UNCHANGED <<debates, heap, timers, tasks, events, hist, sp, cd, ch, tl, typing, fm, tr>>

\* the history arrives; generateResponse runs up to its first await:
\* classify the opponent message, then await analyzeForFallacies
FetchDone(t) ==
  /\ tasks[t].pc = "fetch"
  /\ LET o == tasks[t].obj
     IN heap' = [heap EXCEPT
          ![o] = [Touched(heap[o], Now) EXCEPT
                    !.opponentInactiveCount =
                       InactiveAfter(heap[o].opponentInactiveCount,
                                     tasks[t].msg)]]
  /\ tasks' = [tasks EXCEPT ![t].pc = "analyze", ![t].msg = <<>>]
  /\ last' = NoLast
  /\ UNCHANGED <<debates, timers, events, hist, sp, cd, ch, tl, typing, fm, tr>>

\* fetching the history throws: catch (the interval is not cleared there):
\* the apology is sent; return
FetchFail(t) ==
  /\ tasks[t].pc = "fetch"
  /\ tasks' = [tasks EXCEPT ![t] = IdleTask]
  /\ last' = NoLast
  /\ UNCHANGED <<debates, heap, timers, events, hist, sp, cd, ch, tl, typing, fm, tr>>

\* Whether a fallacy is counted, over what analyzeForFallacies can return.
FoundOutcomes == {Found[verdict] : verdict \in Verdicts}

\* Whether the reply carries the victory marker, over what
\* generateDebateResponse can return.
VictoryOutcomes == {HasVictory[gen] : gen \in Generated}

\* analyzeForFallacies returns; count, check the threshold, then await
\* generateDebateResponse
AnalyzeDone(t) ==
  /\ tasks[t].pc = "analyze"
  /\ \E found \in FoundOutcomes :
       LET o == tasks[t].obj
           n == IF found
                THEN heap[o].fallacyCount + 1 ELSE heap[o].fallacyCount
       IN /\ heap' = [heap EXCEPT
                 ![o].fallacyCount = n,
                 ![o].status = StatusAfterAnalysis(heap[o].status, n)]
          /\ tasks' = [tasks EXCEPT ![t].pc = "generate"]
          /\ last' = NoLast
  /\ UNCHANGED <<debates, timers, events, hist, sp, cd, ch, tl, typing, fm, tr>>

SendAfterTurnNeverConcedes(status, opponentInactiveCount) ==
  IF status = "won" THEN "announceWon" ELSE "sendResponse"

\* if (debate.status === 'won') ...; if (debate.opponentInactiveCount >= 2)
\* ...; else send(response): the send the handler awaits next
SendAfterTurn(status, opponentInactiveCount) ==
  IF status = "won" THEN "announceWon"
  ELSE IF opponentInactiveCount >= WEAK_LIMIT THEN "announceWeak"
  ELSE "sendResponse"

\* generateDebateResponse returns; victory marker; generateResponse returns;
\* finally clearInterval; the handler picks what to send: with status won
\* the response and then the announcement, with two weak answers in a row
\* the announcement alone, else the response
GenerateDone(t) ==
  /\ tasks[t].pc = "generate"
  /\ \E victory \in VictoryOutcomes :
       LET o == tasks[t].obj
           status == IF victory THEN "won" ELSE heap[o].status
       IN /\ heap' = [heap EXCEPT ![o].status = status]
          /\ tasks' = [tasks EXCEPT
                 ![t].pc = SendAfterTurn(status,
                                         heap[o].opponentInactiveCount)]
          /\ last' = NoLast
  /\ typing' = typing - 1
  /\ UNCHANGED <<debates, timers, events, hist, sp, cd, ch, tl, fm, tr>>

\* generateDebateResponse throws: finally clearInterval, then catch: the
\* apology is sent; return
GenerateFail(t) ==
  /\ tasks[t].pc = "generate"
  /\ tasks' = [tasks EXCEPT ![t] = IdleTask]
  /\ typing' = typing - 1
  /\ last' = NoLast
  /\ UNCHANGED <<debates, heap, timers, events, hist, sp, cd, ch, tl, fm, tr>>

\* the sends before endDebate are done (with status won the response and
\* the announcement, else the announcement); endDebate(message.channel.id);
\* return
AnnounceDone(t) ==
  /\ tasks[t].pc \in {"announceWon", "announceWeak"}
  /\ endDebate(tasks[t].thread)
  /\ tasks' = [u \in TaskIds |->
                 IF u = t THEN IdleTask
                 ELSE IF /\ tasks[u].pc = "generate"
                         /\ tasks[u].obj = debates[tasks[t].thread]
                      THEN [tasks[u] EXCEPT !.stale = TRUE]
                      ELSE tasks[u]]
  /\ last' = NoLast
  /\ UNCHANGED <<debates, events, hist, sp, cd, ch, tl, typing, fm, tr>>

\* await message.channel.send(response) returns; the handler returns
ResponseSent(t) ==
  /\ tasks[t].pc = "sendResponse"
  /\ tasks' = [tasks EXCEPT ![t] = IdleTask]
  /\ last' = NoLast
  /\ UNCHANGED <<debates, heap, timers, events, hist, sp, cd, ch, tl, typing, fm, tr>>

\* a send throws: catch: the apology is sent; return
SendFail(t) ==
  /\ tasks[t].pc \in {"announceWon", "announceWeak", "sendResponse"}
  /\ tasks' = [tasks EXCEPT ![t] = IdleTask]
  /\ last' = NoLast
  /\ UNCHANGED <<debates, heap, timers, events, hist, sp, cd, ch, tl, typing, fm, tr>>

(***************************************************************************)
(* splitMessage (src/index.js)                                             *)
(***************************************************************************)

MaxSplitLen == 5

MaxSplitLimit == 3

SplitAlphabet == {"a", ".", " ", "\n"}

SplitTexts == TextsOver(SplitAlphabet, MaxSplitLen)

SplitLimits == 0..MaxSplitLimit

SpIdle == [pc |-> "idle", text |-> <<>>, maxLength |-> 0,
           remaining |-> <<>>, chunks |-> <<>>]

\* The boundary search of one loop iteration: paragraph break, else
\* sentence end, else space, else hard cut.
SplitIndex(remaining, maxLength) ==
  LET para == LastIndexOf(remaining, <<"\n", "\n">>, maxLength)
      sent == LastIndexOf(remaining, <<".", " ">>, maxLength)
      spc  == LastIndexOf(remaining, <<" ">>, maxLength)
  IN IF para = -1 \/ 2 * para < maxLength
     THEN IF sent = -1 \/ 2 * sent < maxLength
          THEN IF spc = -1 THEN maxLength ELSE spc
          ELSE sent
     ELSE para

\* The chunk pushed by one loop iteration.
SplitChunkDropsLast(remaining, splitIndex) ==
  Trim(Substring(remaining, 0, splitIndex))

SplitChunk(remaining, splitIndex) ==
  Trim(Substring(remaining, 0, splitIndex + 1))

\* What is left after one loop iteration.
SplitRest(remaining, splitIndex) ==
  Trim(SubstringFrom(remaining, splitIndex + 1))

\* if (text.length <= maxLength) return [text];
SplitWhole ==
  /\ sp.pc = "start"
  /\ Len(sp.text) <= sp.maxLength
  /\ sp' = [sp EXCEPT !.pc = "done", !.chunks = <<sp.text>>]
  /\ UNCHANGED <<sessionVars, cd, ch, tl, fm, tr>>

\* const chunks = []; let remaining = text;
SplitBegin ==
  /\ sp.pc = "start"
  /\ Len(sp.text) > sp.maxLength
  /\ sp' = [sp EXCEPT !.pc = "loop", !.remaining = sp.text, !.chunks = <<>>]
  /\ UNCHANGED <<sessionVars, cd, ch, tl, fm, tr>>

\* while (remaining.length > 0) is false: return chunks
SplitExit ==
  /\ sp.pc = "loop"
  /\ Len(sp.remaining) = 0
  /\ sp' = [sp EXCEPT !.pc = "done"]
  /\ UNCHANGED <<sessionVars, cd, ch, tl, fm, tr>>

\* if (remaining.length <= maxLength) { chunks.push(remaining); break; }
SplitLast ==
  /\ sp.pc = "loop"
  /\ Len(sp.remaining) > 0
  /\ Len(sp.remaining) <= sp.maxLength
  /\ sp' = [sp EXCEPT !.pc = "done",
                      !.chunks = Append(sp.chunks, sp.remaining)]
  /\ UNCHANGED <<sessionVars, cd, ch, tl, fm, tr>>

\* one iteration that cuts a chunk off the front of remaining
SplitCut ==
  /\ sp.pc = "loop"
  /\ Len(sp.remaining) > sp.maxLength
  /\ LET splitIndex == SplitIndex(sp.remaining, sp.maxLength)
     IN sp' = [sp EXCEPT
                 !.chunks = Append(sp.chunks, SplitChunk(sp.remaining, splitIndex)),
                 !.remaining = SplitRest(sp.remaining, splitIndex)]
  /\ UNCHANGED <<sessionVars, cd, ch, tl, fm, tr>>

(***************************************************************************)
(* condenseIfNeeded (src/services/ollama.js)                               *)
(***************************************************************************)

MaxCondLen == 5

MaxCondLimit == 4

CondTexts == TextsOver({"a", " "}, MaxCondLen)

CondLimits == 0..MaxCondLimit

Ellipsis == <<".", ".", ".">>

\* s.substring(0, maxLength - 3) + '...'
TruncateKeepsAll(s, maxLength) == Substring(s, 0, maxLength) \o Ellipsis

Truncate(s, maxLength) == Substring(s, 0, maxLength - 3) \o Ellipsis

\* if (text.length <= maxLength) return text;
CondenseFast ==
  /\ cd.pc = "start"
  /\ Len(cd.text) <= cd.maxLength
  /\ cd' = [cd EXCEPT !.pc = "done", !.result = cd.text]
  /\ UNCHANGED <<sessionVars, sp, ch, tl, fm, tr>>

\* the request to the model is sent: await ollama.chat(...)
CondenseCall ==
  /\ cd.pc = "start"
  /\ Len(cd.text) > cd.maxLength
  /\ cd' = [cd EXCEPT !.pc = "await", !.calls = cd.calls + 1]
  /\ UNCHANGED <<sessionVars, sp, ch, tl, fm, tr>>

\* the model answers with some content
CondenseOk ==
  /\ cd.pc = "await"
  /\ \E content \in CondTexts :
       LET condensed == Trim(content)
       IN cd' = [cd EXCEPT
                   !.pc = "done",
                   !.result = IF Len(condensed) > cd.maxLength
                              THEN Truncate(condensed, cd.maxLength)
                              ELSE condensed]
  /\ UNCHANGED <<sessionVars, sp, ch, tl, fm, tr>>

\* the call (or reading its content) throws: catch, truncate the original
CondenseFail ==
  /\ cd.pc = "await"
  /\ cd' = [cd EXCEPT !.pc = "done", !.result = Truncate(cd.text, cd.maxLength)]
  /\ UNCHANGED <<sessionVars, sp, ch, tl, fm, tr>>

(***************************************************************************)
(* chatWithTools (src/services/ollama.js) and the source collection of     *)
(* processToolCalls (webSearch.js)                                         *)
(***************************************************************************)

MaxToolCalls == 2

MaxResults == 2

MaxSources == 4

\* retries = 2
RETRIES == 2

\* .slice(0, 3)
SOURCE_CAP == 3

\* A url of "" stands for a result that carries no url, a title of "" for a
\* page without a title.
SourcePool ==
  { [title |-> "t1", url |-> "u1"], [title |-> "t2", url |-> "u1"],
    [title |-> "t1", url |-> "u2"], [title |-> "t1", url |-> "u3"] }

NoUrl == [title |-> "t1", url |-> ""]

NoTitle == [title |-> "", url |-> "u4"]

\* What executeToolCall can return: an error object, a list of search
\* results, or a page / encyclopedia entry.
ToolResults ==
  {[kind |-> "error", results |-> <<>>, title |-> "", url |-> ""]}
  \cup {[kind |-> "results", results |-> rs, title |-> "", url |-> ""] :
          rs \in UNION {[1..n -> SourcePool \cup {NoUrl}] : n \in 1..MaxResults}}
  \cup {[kind |-> "page", results |-> <<>>, title |-> e.title, url |-> e.url] :
          e \in SourcePool \cup {NoUrl, NoTitle}}

RECURSIVE WithUrl(_)
WithUrl(rs) ==
  IF rs = <<>> THEN <<>>
  ELSE IF Head(rs).url # "" THEN <<Head(rs)>> \o WithUrl(Tail(rs))
       ELSE WithUrl(Tail(rs))

\* The sources processToolCalls extracts from one tool result.
ExtractSources(result) ==
  WithUrl(result.results)
  \o (IF result.url # ""
      THEN <<[title |-> IF result.title # "" THEN result.title ELSE "Source",
              url |-> result.url]>>
      ELSE <<>>)

\* The keys of new Map(sources.map(s => [s.url, s])), in insertion order: a
\* key keeps the position of its first insertion.
RECURSIVE MapKeys(_, _)
MapKeys(sources, seen) ==
  IF sources = <<>> THEN <<>>
  ELSE IF Head(sources).url \in seen THEN MapKeys(Tail(sources), seen)
       ELSE <<Head(sources).url>>
            \o MapKeys(Tail(sources), seen \cup {Head(sources).url})

\* The value the Map holds for a key: the one set last.
MapValue(sources, url) ==
  sources[SetMax({i \in 1..Len(sources) : sources[i].url = url})]

UniqueSourcesNoDedup(sources) == SubSeq(sources, 1, Min(Len(sources), SOURCE_CAP))

\* [...new Map(sources.map(s => [s.url, s])).values()].slice(0, 3)
UniqueSources(sources) ==
  LET keys == MapKeys(sources, {})
  IN [i \in 1..Min(Len(keys), SOURCE_CAP) |-> MapValue(sources, keys[i])]

ChatContents == {<<>>, <<" ">>, <<"a">>, <<" ", "a", "\n">>}

FallbackText ==
  <<"I", "'", "m", " ", "r", "e", "a", "d", "y", " ", "t", "o", " ", "d",
  "e", "b", "a", "t", "e", " ", "t", "h", "i", "s", " ", "t", "o", "p",
  "i", "c", ".", " ", "P", "r", "e", "s", "e", "n", "t", " ", "y", "o",
  "u", "r", " ", "a", "r", "g", "u", "m", "e", "n", "t", " ", "a", "n",
  "d", " ", "l", "e", "t", "'", "s", " ", "s", "e", "e", " ", "i", "f",
  " ", "i", "t", " ", "h", "o", "l", "d", "s", " ", "u", "p", " ", "t",
  "o", " ", "s", "c", "r", "u", "t", "i", "n", "y", ".">>

\* let content = response.message.content?.trim(); !content
ContentEmpty(present, content) == ~present \/ Trim(content) = <<>>

ChatFinishFallbackKeepsSources(c, present, content) ==
  IF ContentEmpty(present, content) /\ c.retries > 0
  THEN [c EXCEPT !.pc = "request", !.retries = c.retries - 1,
                 !.empties = c.empties + 1, !.carried = Len(c.sources)]
  ELSE IF ContentEmpty(present, content)
  THEN [c EXCEPT !.pc = "done", !.empties = c.empties + 1,
                 !.result = [content |-> FallbackText,
                             sources |-> UniqueSources(c.sources)]]
  ELSE [c EXCEPT !.pc = "done",
                 !.result = [content |-> Trim(content),
                             sources |-> UniqueSources(c.sources)]]

ChatFinishRetryDropsSources(c, present, content) ==
  IF ContentEmpty(present, content) /\ c.retries > 0
  THEN [c EXCEPT !.pc = "request", !.retries = c.retries - 1,
                 !.empties = c.empties + 1, !.carried = Len(c.sources),
                 !.sources = <<>>]
  ELSE IF ContentEmpty(present, content)
  THEN [c EXCEPT !.pc = "done", !.empties = c.empties + 1,
                 !.result = [content |-> FallbackText, sources |-> <<>>]]
  ELSE [c EXCEPT !.pc = "done",
                 !.result = [content |-> Trim(content),
                             sources |-> UniqueSources(c.sources)]]

\* The end of one attempt: retry with the collected sources, fall back, or
\* return the text with the deduplicated, capped sources.  carried records
\* how many sources the latest retry was handed.
ChatFinish(c, present, content) ==
  IF ContentEmpty(present, content) /\ c.retries > 0
  THEN [c EXCEPT !.pc = "request", !.retries = c.retries - 1,
                 !.empties = c.empties + 1, !.carried = Len(c.sources)]
  ELSE IF ContentEmpty(present, content)
  THEN [c EXCEPT !.pc = "done", !.empties = c.empties + 1,
                 !.result = [content |-> FallbackText, sources |-> <<>>]]
  ELSE [c EXCEPT !.pc = "done",
                 !.result = [content |-> Trim(content),
                             sources |-> UniqueSources(c.sources)]]

\* The first response of an attempt carries no tool calls.
ChatInitialPlain ==
  /\ ch.pc = "request"
  /\ \E present \in BOOLEAN, content \in ChatContents :
       ch' = ChatFinish([ch EXCEPT !.attempts = ch.attempts + 1],
                        present, content)
  /\ UNCHANGED <<sessionVars, sp, cd, tl, fm, tr>>

\* The first response of an attempt requests n tool calls.
ChatInitialTools ==
  /\ ch.pc = "request"
  /\ \E n \in 1..MaxToolCalls :
       ch' = [ch EXCEPT !.pc = "tools", !.callsLeft = n,
                        !.attempts = ch.attempts + 1,
                        !.rounds = ch.rounds + 1]
  /\ UNCHANGED <<sessionVars, sp, cd, tl, fm, tr>>

\* processToolCalls executes the next requested call and collects its sources.
ChatToolCall ==
  /\ ch.pc = "tools"
  /\ \E r \in ToolResults :
       /\ Len(ch.sources) + Len(ExtractSources(r)) <= MaxSources
       /\ ch' = [ch EXCEPT
                   !.sources = ch.sources \o ExtractSources(r),
                   !.callsLeft = ch.callsLeft - 1,
                   !.pc = IF ch.callsLeft = 1 THEN "followup" ELSE "tools"]
  /\ UNCHANGED <<sessionVars, sp, cd, tl, fm, tr>>

\* The numbers of tool calls a follow-up response carries
FollowUpToolCalls == {0, 1}

AfterFollowUpRunsTools(c, toolCalls, present, content) ==
  IF toolCalls > 0
  THEN [c EXCEPT !.pc = "tools", !.callsLeft = toolCalls,
                 !.rounds = c.rounds + 1]
  ELSE ChatFinish(c, present, content)

\* What follows the follow-up response: only its content is read, the
\* tool_calls it carries (toolCalls of them) are not looked at.  dropped
\* records that the response the call returned from carried tool calls.
AfterFollowUp(c, toolCalls, present, content) ==
  LET next == ChatFinish(c, present, content)
  IN [next EXCEPT !.dropped = next.pc = "done" /\ toolCalls > 0]

\* The follow-up response, to the request sent without the tools field
ChatFollowUp ==
  /\ ch.pc = "followup"
  /\ \E toolCalls \in FollowUpToolCalls, present \in BOOLEAN,
        content \in ChatContents :
       ch' = AfterFollowUp(ch, toolCalls, present, content)
  /\ UNCHANGED <<sessionVars, sp, cd, tl, fm, tr>>

\* ollama.chat throws: chatWithTools has no handler, the error propagates.
ChatThrow ==
  /\ ch.pc \in {"request", "followup"}
  /\ ch' = [ch EXCEPT !.pc = "raised"]
  /\ UNCHANGED <<sessionVars, sp, cd, tl, fm, tr>>

(***************************************************************************)
(* executeToolCall and processToolCalls                                    *)
(***************************************************************************)

\* The names the switch of executeToolCall knows
ToolNames == {"web_search", "web_fetch", "wikipedia"}

\* A tool call as the model's response carries it.  name "" stands for a
\* call without function.name; arguments is "absent" (undefined),
\* "malformed" (a string JSON.parse rejects), "empty" (an object or a JSON
\* string of an object without the key the tool reads) or "valid".
ToolCalls ==
  [name : ToolNames \cup {"calculator", ""},
   arguments : {"absent", "malformed", "empty", "valid"}]

\* What the remote call of a tool does: it throws (no connection, a status
\* that is not ok, a body that is not JSON), answers null, or answers with
\* search results or a page.
Backends ==
  {[kind |-> "throws", results |-> <<>>, title |-> "", url |-> ""],
   [kind |-> "null", results |-> <<>>, title |-> "", url |-> ""],
   [kind |-> "ok", results |-> <<>>, title |-> "", url |-> ""],
   [kind |-> "ok", results |-> <<NoUrl, NoTitle>>, title |-> "t1",
    url |-> "u1"]}

\* return { error: ... }: tool is the name the text of the error carries
ToolError(error, tool) ==
  [raised |-> FALSE, kind |-> "error", error |-> error, tool |-> tool,
   results |-> <<>>, title |-> "", url |-> ""]

\* an exception that leaves executeToolCall
ToolRaised ==
  [raised |-> TRUE, kind |-> "error", error |-> "", tool |-> "",
   results |-> <<>>, title |-> "", url |-> ""]

ToolOk(kind, results, title, url) ==
  [raised |-> FALSE, kind |-> kind, error |-> "", tool |-> "",
   results |-> results, title |-> title, url |-> url]

\* The body of the try of executeToolCall, for a name of ToolNames and
\* arguments that are an object: the remote call and the shaping of its
\* answer.  failed is what a throw inside the try turns into.
ToolSwitch(toolCall, backend, failed) ==
  IF toolCall.name = "web_search"
  THEN IF backend.kind # "ok" THEN failed
       ELSE IF backend.results # <<>>
       THEN ToolOk("results", backend.results, "", "")
       ELSE ToolError("No search results found", "")
  ELSE IF toolCall.name = "web_fetch"
  THEN IF backend.kind # "ok" THEN failed
       ELSE ToolOk("page", <<>>, backend.title,
                   IF toolCall.arguments = "valid" THEN "u2" ELSE "")
  ELSE IF backend.kind # "ok" THEN ToolError("Wikipedia query failed", "")
       ELSE IF backend.results = <<>>
       THEN ToolError("No Wikipedia article found", "")
       ELSE ToolOk("page", <<>>, backend.title, backend.url)

executeToolCallNoCatch(toolCall, backend) ==
  IF toolCall.arguments = "malformed"
  THEN ToolError("Invalid arguments", "")
  ELSE IF toolCall.name \notin ToolNames
  THEN ToolError("Unknown tool", toolCall.name)
  ELSE IF toolCall.arguments = "absent" THEN ToolRaised
  ELSE ToolSwitch(toolCall, backend, ToolRaised)

\* executeToolCall(toolCall): JSON.parse of string arguments in its own try;
\* then the switch inside a try whose catch returns `${name} failed: ...`.
\* With arguments undefined, args.query and args.url throw inside the try.
executeToolCall(toolCall, backend) ==
  IF toolCall.arguments = "malformed"
  THEN ToolError("Invalid arguments", "")
  ELSE IF toolCall.name \notin ToolNames
  THEN ToolError("Unknown tool", toolCall.name)
  ELSE IF toolCall.arguments = "absent"
  THEN ToolError("failed", toolCall.name)
  ELSE ToolSwitch(toolCall, backend, ToolError("failed", toolCall.name))

TlIdle == [pc |-> "idle", toolCalls |-> <<>>, messages |-> <<>>,
           sources |-> <<>>]

\* if (!toolCalls || toolCalls.length === 0) return { messages: [], sources: [] }
ToolsNone ==
  /\ tl.pc = "start"
  /\ tl.toolCalls = <<>>
  /\ tl' = [tl EXCEPT !.pc = "done"]
  /\ UNCHANGED <<sessionVars, sp, cd, ch, fm, tr>>

\* One iteration of for (const call of toolCalls): the call is executed, its
\* result is pushed as a message and its sources are collected.  An
\* exception of executeToolCall would leave the loop and the function.
ToolsIteration ==
  /\ tl.pc \in {"start", "loop"}
  /\ Len(tl.messages) < Len(tl.toolCalls)
  /\ \E backend \in Backends :
       LET call == Len(tl.messages) + 1
           result == executeToolCall(tl.toolCalls[call], backend)
       IN tl' = IF result.raised
                THEN [tl EXCEPT !.pc = "raised"]
                ELSE [tl EXCEPT
                        !.pc = "loop",
                        !.messages = Append(@, [role |-> "tool",
                                                call |-> call,
                                                content |-> result]),
                        !.sources = @ \o ExtractSources(result)]
  /\ UNCHANGED <<sessionVars, sp, cd, ch, fm, tr>>

\* return { messages, sources }
ToolsReturn ==
  /\ tl.pc = "loop"
  /\ Len(tl.messages) = Len(tl.toolCalls)
  /\ tl' = [tl EXCEPT !.pc = "done"]
  /\ UNCHANGED <<sessionVars, sp, cd, ch, fm, tr>>

(***************************************************************************)
(* formatWithSources (src/services/ollama.js)                              *)
(***************************************************************************)

\* The lengths MAX_DISCORD_LENGTH = 500 is scaled to: like 500 they are at
\* least the length of the ellipsis.
FormatLimits == {n \in CondLimits : n >= Len(Ellipsis)}

\* The contents chatWithTools returns: trimmed and not empty
FormatContents == {text \in CondTexts : text # <<>> /\ Trim(text) = text}

\* The source lists chatWithTools returns: at most 3 entries, no url twice;
\* a title of "" is that of a search result without a title.
FormatSources ==
  {<<>>,
   <<[title |-> "t1", url |-> "u1"]>>,
   <<[title |-> "", url |-> "u2"], [title |-> "t1", url |-> "u1"]>>,
   <<[title |-> "t2", url |-> "u1"], [title |-> "t1", url |-> "u3"],
     [title |-> "t1", url |-> "u4"]>>}

\* `[${s.title}](${s.url})`: a title and a url are one element each
SourceLink(s) == <<"[", s.title, "]", "(", s.url, ")">>

\* sources.map(...).join(' | ')
RECURSIVE JoinLinks(_)
JoinLinks(sources) ==
  IF sources = <<>> THEN <<>>
  ELSE IF Len(sources) = 1 THEN SourceLink(sources[1])
  ELSE SourceLink(sources[1]) \o <<" ", "|", " ">> \o JoinLinks(Tail(sources))

\* `\n\n📎 ${sourceLinks}`: the paperclip is one element
CitationLine(sources) == <<"\n", "\n", "U+1F4CE", " ">> \o JoinLinks(sources)

AppendSourcesCut(content, sources) ==
  IF Len(sources) > 0
  THEN content \o SubSeq(CitationLine(sources), 1,
                         Len(CitationLine(sources)) - 1)
  ELSE content

\* if (result.sources && result.sources.length > 0) content += ...
AppendSources(content, sources) ==
  IF Len(sources) > 0 THEN content \o CitationLine(sources) ELSE content

FmIdle == [pc |-> "idle", sources |-> <<>>, final |-> <<>>]

\* content = await condenseIfNeeded(result.content) has returned; the
\* sources are appended; return content
FormatAppend ==
  /\ fm.pc = "condense"
  /\ cd.pc = "done"
  /\ fm' = [fm EXCEPT !.pc = "done",
                      !.final = AppendSources(cd.result, fm.sources)]
  /\ UNCHANGED <<sessionVars, sp, cd, ch, tl, tr>>

(***************************************************************************)
(* debate.messages in the definition of DebateManager that keeps a         *)
(* transcript (the second one of src/services/debateManager.js)            *)
(***************************************************************************)

\* if (debate.messages.length > 20) debate.messages = debate.messages.slice(-20)
HISTORY_CAP == 20

MaxTranscriptTurns == 12

\* pushed counts the entries ever pushed; an entry carries its number.
TrIdle == [pc |-> "idle", messages |-> <<>>, pushed |-> 0, turns |-> 0]

\* debate.messages.push({ role, content })
Pushed(t, role) ==
  [t EXCEPT !.messages = Append(@, [role |-> role, n |-> t.pushed + 1]),
            !.pushed = @ + 1]

\* messages.slice(-20) when there are more than 20
Trimmed(messages) ==
  IF Len(messages) > HISTORY_CAP
  THEN SubSeq(messages, Len(messages) - HISTORY_CAP + 1, Len(messages))
  ELSE messages

\* generateOpening: the opening is generated and pushed
TranscriptOpening ==
  /\ tr.pc = "created"
  /\ tr' = [Pushed(tr, "assistant") EXCEPT !.pc = "ready"]
  /\ UNCHANGED <<sessionVars, sp, cd, ch, tl, fm>>

\* generateResponse up to its first await: the opponent message is pushed
TranscriptTurn ==
  /\ tr.pc = "ready"
  /\ tr.turns < MaxTranscriptTurns
  /\ tr' = [Pushed(tr, "user") EXCEPT !.pc = "await"]
  /\ UNCHANGED <<sessionVars, sp, cd, ch, tl, fm>>

\* generateDebateResponse returns: the response is pushed; with the marker in
\* it the function returns at once, else the history is trimmed
TranscriptReply ==
  /\ tr.pc = "await"
  /\ \E victory \in BOOLEAN :
       LET t == Pushed(tr, "assistant")
       IN tr' = [t EXCEPT !.pc = "ready", !.turns = @ + 1,
                          !.messages = IF victory THEN t.messages
                                       ELSE Trimmed(t.messages)]
  /\ UNCHANGED <<sessionVars, sp, cd, ch, tl, fm>>

\* generateDebateResponse throws: the opponent message stays pushed
TranscriptFails ==
  /\ tr.pc = "await"
  /\ tr' = [tr EXCEPT !.pc = "ready", !.turns = @ + 1]
  /\ UNCHANGED <<sessionVars, sp, cd, ch, tl, fm>>

(***************************************************************************)
(* Idle values of the components that a specification leaves alone         *)
(***************************************************************************)

CdIdle == [pc |-> "idle", text |-> <<>>, maxLength |-> 0,
           result |-> <<>>, calls |-> 0]

ChIdle == [pc |-> "idle", retries |-> 0, sources |-> <<>>, callsLeft |-> 0,
           attempts |-> 0, empties |-> 0, rounds |-> 0, dropped |-> FALSE,
           carried |-> 0,
           result |-> [content |-> <<>>, sources |-> <<>>]]

NoSessions ==
  /\ debates = [t \in {} |-> 0]
  /\ heap = <<>>
  /\ timers = [t \in {} |-> 0]
  /\ tasks = [t \in {} |-> 0]
  /\ events = 0
  /\ last = NoLast
  /\ hist = [o \in {} |-> 0]
  /\ typing = 0

SplitInit ==
  /\ NoSessions
  /\ tr = TrIdle
  /\ tl = TlIdle
  /\ fm = FmIdle
  /\ cd = CdIdle
  /\ ch = ChIdle
  /\ \E text \in SplitTexts, maxLength \in SplitLimits :
       sp = [pc |-> "start", text |-> text, maxLength |-> maxLength,
             remaining |-> <<>>, chunks |-> <<>>]

SplitNext == SplitWhole \/ SplitBegin \/ SplitExit \/ SplitLast \/ SplitCut

SplitSpec == SplitInit /\ [][SplitNext]_vars

(***************************************************************************)
(* Properties of splitMessage                                              *)
(***************************************************************************)

\* text is the chunks in order, with only whitespace before, between and
\* after them.
RECURSIVE BoundaryMatch(_, _)
BoundaryMatch(text, chunks) ==
  IF chunks = <<>> THEN StripWs(text) = <<>>
  ELSE \E k \in 0..Len(text) :
         /\ StripWs(SubSeq(text, 1, k)) = <<>>
         /\ MatchesAt(text, Head(chunks), k)
         /\ BoundaryMatch(SubSeq(text, k + Len(Head(chunks)) + 1, Len(text)),
                          Tail(chunks))

\* C8: every chunk returned by splitMessage has length <= maxLength, and a
\* text longer than maxLength is returned as at least 2 chunks.
C8_ChunksWithinLimit ==
  sp.pc = "done" =>
    /\ \A i \in 1..Len(sp.chunks) : Len(sp.chunks[i]) <= sp.maxLength
    /\ Len(sp.text) > sp.maxLength => Len(sp.chunks) >= 2

\* C9: the chunks, in order, are the text with whitespace removed only at
\* chunk boundaries (no other character lost, duplicated or reordered), at
\* every point of the loop as well as at its end; and every iteration of the
\* loop either ends it or strictly shortens what remains, so it terminates.
C9_Reconstructs ==
  /\ [](sp.pc = "done" => BoundaryMatch(sp.text, sp.chunks))
  /\ [](sp.pc = "loop" =>
          BoundaryMatch(sp.text, Append(sp.chunks, sp.remaining)))
  /\ [][sp.pc = "loop" =>
          \/ sp'.pc = "done"
          \/ sp'.pc = "loop" /\ Len(sp'.remaining) < Len(sp.remaining)]_vars

\* A split into several chunks that dropped whitespace at a boundary.
C9_Witness ==
  /\ sp.pc = "done"
  /\ Len(sp.chunks) >= 2
  /\ Len(Flatten(sp.chunks)) < Len(sp.text)
  /\ StripWs(Flatten(sp.chunks)) # <<>>

(***************************************************************************)
(* Specification and properties of condenseIfNeeded                        *)
(***************************************************************************)

CondInit ==
  /\ NoSessions
  /\ tr = TrIdle
  /\ tl = TlIdle
  /\ fm = FmIdle
  /\ sp = SpIdle
  /\ ch = ChIdle
  /\ \E text \in CondTexts, maxLength \in CondLimits :
       cd = [pc |-> "start", text |-> text, maxLength |-> maxLength,
             result |-> <<>>, calls |-> 0]

CondNext == CondenseFast \/ CondenseCall \/ CondenseOk \/ CondenseFail

CondSpec == CondInit /\ [][CondNext]_vars

\* C6 as stated: the result has length <= maxLength for every text and every
\* limit, and a text within the limit is returned unchanged without a call.
C6_Original ==
  cd.pc = "done" =>
    /\ Len(cd.result) <= cd.maxLength
    /\ Len(cd.text) <= cd.maxLength => cd.result = cd.text /\ cd.calls = 0

\* C6 amended: for every limit of at least 3 (the length of the ellipsis) the
\* result has length <= maxLength, whether the call succeeds, answers too
\* long, or fails; and for every limit a text within the limit is returned
\* unchanged without a call.
C6_Condense ==
  cd.pc = "done" =>
    /\ cd.maxLength >= 3 => Len(cd.result) <= cd.maxLength
    /\ Len(cd.text) <= cd.maxLength => cd.result = cd.text /\ cd.calls = 0

\* An over-long text was cut to exactly the limit and ends in the ellipsis.
C6_Witness ==
  /\ cd.pc = "done"
  /\ cd.maxLength >= 3
  /\ Len(cd.text) > cd.maxLength
  /\ cd.calls = 1
  /\ Len(cd.result) = cd.maxLength
  /\ SubSeq(cd.result, Len(cd.result) - 2, Len(cd.result)) = Ellipsis

(***************************************************************************)
(* Specification and properties of chatWithTools                           *)
(***************************************************************************)

ChatInit ==
  /\ NoSessions
  /\ tr = TrIdle
  /\ tl = TlIdle
  /\ fm = FmIdle
  /\ sp = SpIdle
  /\ cd = CdIdle
  /\ ch = [ChIdle EXCEPT !.pc = "request", !.retries = RETRIES]

ChatNext ==
  \/ ChatInitialPlain
  \/ ChatInitialTools
  \/ ChatToolCall
  \/ ChatFollowUp
  \/ ChatThrow

ChatSpec == ChatInit /\ [][ChatNext]_vars

\* C7: the source list chatWithTools returns holds no two entries with the
\* same URL and at most 3 entries.
C7_SourcesUniqueCapped ==
  ch.pc = "done" =>
    /\ Len(ch.result.sources) <= 3
    /\ \A i, j \in 1..Len(ch.result.sources) :
         ch.result.sources[i].url = ch.result.sources[j].url => i = j

\* A call that retried, collected four sources of which the first two share
\* a URL, and returned three.
C7_Witness ==
  /\ ch.pc = "done"
  /\ ch.attempts >= 2
  /\ Len(ch.sources) = 4
  /\ ch.sources[1].url = ch.sources[2].url
  /\ Len(ch.result.sources) = 3

\* C10: there are never more than 3 attempts, and when all 3 end with empty
\* or whitespace-only text the call has terminated without raising and
\* returns the fallback sentence with an empty source list, whatever sources
\* were collected.
C10_FallbackAfterRetries ==
  /\ ch.attempts <= 3
  /\ ch.empties = 3 =>
       /\ ch.pc = "done"
       /\ ch.result.content = FallbackText
       /\ ch.result.sources = <<>>

\* Three empty attempts, with sources collected on the way.
C10_Witness ==
  /\ ch.empties = 3
  /\ ch.attempts = 3
  /\ ch.pc = "done"
  /\ Len(ch.sources) >= 2

(***************************************************************************)
(* Specification of the sessions                                           *)
(***************************************************************************)

Init ==
  /\ debates = [id \in ThreadIds |-> 0]
  /\ heap = [o \in Objs |-> FreeDebate]
  /\ timers = [id \in ThreadIds |-> 0]
  /\ tasks = [t \in TaskIds |-> IdleTask]
  /\ events = 0
  /\ last = NoLast
  /\ hist = [o \in Objs |-> <<>>]
  /\ typing = 0
  /\ tr = TrIdle
  /\ tl = TlIdle
  /\ fm = FmIdle
  /\ sp = SpIdle
  /\ cd = CdIdle
  /\ ch = ChIdle

Next ==
  \/ \E t \in TaskIds, a \in Starters : StartDebate(t, a)
  \/ \E t \in TaskIds : GreetingDone(t)
  \/ \E t \in TaskIds : GreetingFail(t)
  \/ \E t \in TaskIds : OpeningDone(t)
  \/ \E t \in TaskIds : OpeningFail(t)
  \/ \E t \in TaskIds, id \in ThreadIds, a \in Authors, m \in Messages :
       MessageTurn(t, id, a, m)
  \/ \E m \in OtherMessages : MessageOther(m.thread, m.author, m.bot)
  \/ \E t \in TaskIds : FetchDone(t)
  \/ \E t \in TaskIds : FetchFail(t)
  \/ \E t \in TaskIds : AnalyzeDone(t)
  \/ \E t \in TaskIds : GenerateDone(t)
  \/ \E t \in TaskIds : GenerateFail(t)
  \/ \E t \in TaskIds : AnnounceDone(t)
  \/ \E t \in TaskIds : ResponseSent(t)
  \/ \E t \in TaskIds : SendFail(t)
  \/ \E id \in ThreadIds : TimerFire(id)

Spec == Init /\ [][Next]_vars

\* C1: once a session's status is ended it stays ended.
C1_EndedStaysEnded ==
  [][\A o \in Objs : heap[o].status = "ended" => heap'[o].status = "ended"]_vars

\* C4: the step of a turn that completes the fallacy analysis with
\* fallacyCount >= 3 sets the status to won; and a session whose status is won
\* or ended is never active again.
C4_WonAtThreshold ==
  /\ [][\A t \in TaskIds :
          (tasks[t].pc = "analyze" /\ tasks'[t].pc = "generate"
           /\ heap'[tasks[t].obj].fallacyCount >= 3)
          => heap'[tasks[t].obj].status = "won"]_vars
  /\ [][\A o \in Objs :
          heap[o].status \in {"won", "ended"} => heap'[o].status # "active"]_vars

\* A turn has just counted the third fallacy of its session.
C4_Witness ==
  \E t \in TaskIds :
    /\ tasks[t].pc = "generate"
    /\ heap[tasks[t].obj].fallacyCount = 3
    /\ heap[tasks[t].obj].status = "won"

(***************************************************************************)
(* Specification of the manager's calls run one at a time                  *)
(***************************************************************************)

MgrNext ==
  \/ \E id \in MgrIds, a \in Starters : MgrCreateDebate(id, a)
  \/ \E id \in MgrIds : MgrEndDebate(id)
  \/ \E o \in Objs : MgrOpening(o)
  \/ \E o \in Objs : MgrOpeningFails(o)
  \/ \E o \in Objs, m \in MgrMessages : MgrTurn(o, m)
  \/ \E o \in Objs, m \in MgrMessages : MgrTurnFails(o, m)
  \/ \E id \in MgrIds : TimerFire(id)

ManagerSpec == Init /\ [][MgrNext]_vars

\* The number of TRUE entries at the end of a sequence.
RECURSIVE TrailingTrue(_)
TrailingTrue(bs) ==
  IF bs = <<>> THEN 0
  ELSE IF bs[Len(bs)] THEN 1 + TrailingTrue(SubSeq(bs, 1, Len(bs) - 1))
       ELSE 0

IsTurn(l) == l.op \in {"turn", "turnFailed"}

\* C2 as stated: fallacyCount never decreases; a processed opponent turn
\* raises it by exactly 1 when the verdict is present and does not contain
\* the sentinel, and by 0 otherwise; nothing else changes it.
C2_Original ==
  [][\A o \in Objs :
       IF IsTurn(last') /\ last'.obj = o
       THEN heap'[o].fallacyCount =
              IF last'.verdict.present
                 /\ ~Includes(last'.verdict.content, Sentinel)
              THEN heap[o].fallacyCount + 1 ELSE heap[o].fallacyCount
       ELSE heap'[o].fallacyCount = heap[o].fallacyCount]_vars

\* C2 amended: fallacyCount never decreases; a processed opponent turn raises
\* it by exactly 1 when the verdict is present, is not the empty string and
\* does not contain the sentinel, and by 0 otherwise; nothing else changes it.
C2_FallacyCount ==
  [][\A o \in Objs :
       IF IsTurn(last') /\ last'.obj = o
       THEN heap'[o].fallacyCount =
              IF /\ last'.verdict.present
                 /\ last'.verdict.content # <<>>
                 /\ ~Includes(last'.verdict.content, Sentinel)
              THEN heap[o].fallacyCount + 1 ELSE heap[o].fallacyCount
       ELSE heap'[o].fallacyCount = heap[o].fallacyCount]_vars

\* A turn whose verdict names several fallacies has raised the count to 1,
\* and a later turn with an empty verdict has left it there.
C2_Witness ==
  /\ last.op = "turn"
  /\ last.verdict = [present |-> TRUE, content |-> <<>>]
  /\ heap[last.obj].fallacyCount = 1
  /\ Len(hist[last.obj]) = 2

\* C3: each processed turn sets opponentInactiveCount to its old value plus 1
\* when the opponent message is classified non-substantive ("ok" is), and to
\* 0 otherwise; so the count is always the number of non-substantive messages
\* at the end of the session's processed turns.
C3_InactivityStreak ==
  /\ [](isNonSubstantive(<<"o", "k">>))
  /\ [][\A o \in Objs :
          Len(hist'[o]) = Len(hist[o]) + 1 =>
            heap'[o].opponentInactiveCount =
              IF hist'[o][Len(hist'[o])]
              THEN heap[o].opponentInactiveCount + 1 ELSE 0]_vars
  /\ [](\A o \in Objs :
         heap[o].opponentInactiveCount = TrailingTrue(hist[o]))

\* Two non-substantive turns in a row have been counted.
C3_Witness ==
  \E o \in Objs :
    /\ hist[o] = <<TRUE, TRUE>>
    /\ heap[o].opponentInactiveCount = 2

\* C5: a generated text with the victory marker makes the turn set the status
\* to won and return the text without the marker, trimmed, so that no marker
\* is left in it; a text without the marker is returned unchanged and the
\* status stays what the fallacy count made it.
C5_VictoryStripped ==
  [][last'.op = "turn" =>
       LET o == last'.obj
       IN IF Includes(last'.gen, VictoryMarker)
          THEN /\ heap'[o].status = "won"
               /\ ~Includes(last'.returned, VictoryMarker)
               /\ last'.returned = Trim(last'.returned)
          ELSE /\ last'.returned = last'.gen
               /\ heap'[o].status =
                    IF heap'[o].fallacyCount >= 3 THEN "won"
                    ELSE heap[o].status]_vars

\* C11: createDebate with an id the registry already holds raises and leaves
\* the registry and every session as they were.
C11_DuplicateRejected ==
  [][(last'.op = "create" /\ debates[last'.thread] # 0) =>
       /\ last'.raised
       /\ debates' = debates
       /\ heap' = heap]_vars

\* C12: an opening turn only sets lastActivity to the time of the call: the
\* counters and the status of the session stay as they were, every other
\* session is untouched, no message is classified and no verdict is obtained,
\* and what it returns is the generator's opening text as it is.
C12_OpeningNoScoring ==
  [][last'.op = "opening" =>
       /\ heap' = [heap EXCEPT ![last'.obj].lastActivity = Now]
       /\ hist' = hist
       /\ last'.verdict = NoVerdict
       /\ ~last'.raised => last'.returned = last'.gen]_vars

\* The opening of the first session, asked for after a turn of another
\* session, moved its lastActivity; its text carries the victory marker and
\* the session is still active.
C12_Witness ==
  /\ last.op = "opening"
  /\ last.obj = 1
  /\ last.returned = GenVictory
  /\ hist[1] = <<>>
  /\ heap[1].lastActivity = 1
  /\ heap[1].status = "active"

\* C13: analyzeForFallacies answers a failed call with an absent verdict; a
\* turn whose verdict is absent leaves fallacyCount as it was, does not make
\* the status won unless it was won, the count had reached the threshold
\* before the turn or the generated text carries the marker, and returns the
\* generated text unless the generation itself throws.
C13_AnalysisFailureLenient ==
  /\ [](\A reply \in AnalysisReplies :
          reply.threw => analyzeForFallacies(reply) = NoVerdict)
  /\ [][(IsTurn(last') /\ ~last'.verdict.present) =>
          LET o == last'.obj
          IN /\ heap'[o].fallacyCount = heap[o].fallacyCount
             /\ heap'[o].status = "won" =>
                  \/ heap[o].status = "won"
                  \/ heap[o].fallacyCount >= 3
                  \/ Includes(last'.gen, VictoryMarker)
             /\ last'.op = "turn" =>
                  ~last'.raised /\ last'.returned = Returned[last'.gen]]_vars

\* After a turn that counted a fallacy, a turn whose analysis failed has
\* returned its text and left the count at 1 and the session active.
C13_Witness ==
  /\ last.op = "turn"
  /\ ~last.verdict.present
  /\ last.returned = GenPlain
  /\ Len(hist[last.obj]) = 2
  /\ heap[last.obj].fallacyCount = 1
  /\ heap[last.obj].status = "active"

\* C14: a status becomes won only in a turn of that session that is not an
\* opening, and only when the count is at least 3 after the turn's analysis
\* or the generated text carries the marker; and fallacyCount and
\* opponentInactiveCount change in no other call than such a turn.
C14_WonOnlyInTurn ==
  [][\A o \in Objs :
       /\ (heap'[o].status = "won" /\ heap[o].status # "won") =>
            /\ IsTurn(last') /\ last'.obj = o
            /\ \/ heap'[o].fallacyCount >= 3
               \/ last'.op = "turn" /\ Includes(last'.gen, VictoryMarker)
       /\ (\/ heap'[o].fallacyCount # heap[o].fallacyCount
            \/ heap'[o].opponentInactiveCount # heap[o].opponentInactiveCount)
            => IsTurn(last') /\ last'.obj = o]_vars

\* A turn has made its session won by the marker alone, with no fallacy
\* counted, while the other session was created, opened and ended.
C14_Witness ==
  /\ last.op = "turn"
  /\ last.gen = GenVictory
  /\ heap[last.obj].status = "won"
  /\ heap[last.obj].fallacyCount = 0
  /\ \E q \in Objs : q # last.obj /\ heap[q].status = "ended"

\* C15: a session that getDebate returns with status ended is returned with
\* status ended for as long as its id is in the map, and getActiveDebates
\* does not list it.
C15_EndedReadableUntilRemoved ==
  [][\A id \in ThreadIds :
       (getDebate(id) # 0 /\ heap[getDebate(id)].status = "ended"
        /\ getDebate(id)' # 0)
       => /\ getDebate(id)' = getDebate(id)
          /\ heap'[getDebate(id)].status = "ended"
          /\ id \notin getActiveDebates']_vars

\* C16 as stated: one call of chatWithTools, its retries included, makes at
\* most one tool round-trip.
C16_Original == ch.rounds <= 1

\* C16: each attempt of a call of chatWithTools makes at most one tool
\* round-trip, so a call makes at most 3; a round-trip is one batch of tool
\* executions followed by one follow-up request; and after the follow-up
\* response no tool is executed in that attempt, whatever tool calls the
\* response carries.
C16_OneRoundTripPerAttempt ==
  /\ [](ch.rounds <= ch.attempts /\ ch.attempts <= RETRIES + 1)
  /\ [][
       /\ (ch'.rounds # ch.rounds) =>
            (/\ ch.pc = "request"
             /\ ch'.rounds = ch.rounds + 1
             /\ ch'.attempts = ch.attempts + 1)
       /\ (ch'.pc = "followup") => (ch.pc = "tools" /\ ch.callsLeft = 1)
       /\ (ch.pc = "followup") =>
            (/\ ch'.pc \in {"request", "done", "raised"}
             /\ ch'.sources = ch.sources
             /\ ch'.attempts = ch.attempts)
     ]_vars

\* A call that made a tool round-trip in each of two attempts and returned
\* after a follow-up response whose tool calls were left alone.
C16_Witness ==
  /\ ch.pc = "done"
  /\ ch.rounds = 2
  /\ ch.attempts = 2
  /\ ch.dropped
  /\ ch.result.content = <<"a">>

(***************************************************************************)
(* Specification and properties of processToolCalls                        *)
(***************************************************************************)

ToolsInit ==
  /\ NoSessions
  /\ tr = TrIdle
  /\ fm = FmIdle
  /\ sp = SpIdle
  /\ cd = CdIdle
  /\ ch = ChIdle
  /\ \E toolCalls \in UNION {[1..n -> ToolCalls] : n \in 0..MaxToolCalls} :
       tl = [TlIdle EXCEPT !.pc = "start", !.toolCalls = toolCalls]

ToolsNext == ToolsNone \/ ToolsIteration \/ ToolsReturn

ToolsSpec == ToolsInit /\ [][ToolsNext]_vars

\* C17: executeToolCall raises for no tool call and no behaviour of the
\* remote service, and returns an error object for malformed arguments,
\* for absent arguments of a known tool, for an unknown name and for a
\* remote call that fails; processToolCalls therefore never raises, has
\* pushed message k for call k after k iterations, and returns one message
\* per call.
C17_ToolFailuresAreData ==
  /\ \A toolCall \in ToolCalls, backend \in Backends :
       LET result == executeToolCall(toolCall, backend)
       IN /\ ~result.raised
          /\ (\/ toolCall.arguments \in {"malformed", "absent"}
              \/ toolCall.name \notin ToolNames
              \/ backend.kind = "throws")
             => result.kind = "error" /\ result.error # ""
  /\ tl.pc # "raised"
  /\ \A k \in 1..Len(tl.messages) :
       /\ tl.messages[k].call = k
       /\ tl.messages[k].role = "tool"
  /\ Len(tl.messages) <= Len(tl.toolCalls)
  /\ tl.pc = "done" => Len(tl.messages) = Len(tl.toolCalls)

\* processToolCalls has returned two messages: the first the error of a
\* remote call that threw, the second the results of a search that was
\* executed after it.
C17_Witness ==
  /\ tl.pc = "done"
  /\ Len(tl.messages) = 2
  /\ tl.toolCalls[1] = [name |-> "web_fetch", arguments |-> "valid"]
  /\ tl.messages[1].content = ToolError("failed", "web_fetch")
  /\ tl.messages[2].content.kind = "results"
  /\ tl.sources = <<NoTitle>>

\* The pcs at which a handler has set its typing interval and not yet
\* cleared it.
TypingPcs == {"opening", "fetch", "analyze", "generate"}

\* C18: the typing intervals that are running are those of the handlers
\* that are between their setInterval and their clearInterval; a handler
\* that has returned has left none.
C18_TypingTimerCancelled ==
  typing = Cardinality({t \in TaskIds : tasks[t].pc \in TypingPcs})

\* C19: the handler of a turn whose session was ended while the turn was
\* awaiting its generated text does not send that text to the thread.
C19_InFlightTextDiscarded ==
  \A t \in TaskIds :
    tasks[t].stale => tasks[t].pc \notin {"sendResponse", "announceWon"}

(***************************************************************************)
(* Specification and properties of formatWithSources                       *)
(***************************************************************************)

\* formatWithSources(result) calls condenseIfNeeded(result.content)
FormatInit ==
  /\ NoSessions
  /\ tr = TrIdle
  /\ sp = SpIdle
  /\ ch = ChIdle
  /\ tl = TlIdle
  /\ \E content \in FormatContents, sources \in FormatSources,
        maxLength \in FormatLimits :
       /\ fm = [FmIdle EXCEPT !.pc = "condense", !.sources = sources]
       /\ cd = [pc |-> "start", text |-> content, maxLength |-> maxLength,
                result |-> <<>>, calls |-> 0]

FormatNext ==
  \/ CondenseFast
  \/ CondenseCall
  \/ CondenseOk
  \/ CondenseFail
  \/ FormatAppend

FormatSpec == FormatInit /\ [][FormatNext]_vars

\* C20: the text formatWithSources returns starts with the condensed body,
\* which is within the budget; with sources it goes on with a blank line, the
\* paperclip and, for every source in order, its whole [title](url),
\* separated by " | ", and nothing else; without sources it is the body.
C20_CitationAfterCondensation ==
  fm.pc = "done" =>
    LET body == cd.result
        n == Len(fm.sources)
        rest == SubSeq(fm.final, Len(body) + 1, Len(fm.final))
    IN /\ Len(body) <= cd.maxLength
       /\ n <= 3
       /\ SubSeq(fm.final, 1, Len(body)) = body
       /\ n = 0 => rest = <<>>
       /\ n > 0 =>
            /\ Len(rest) = 4 + 6 * n + 3 * (n - 1)
            /\ SubSeq(rest, 1, 4) = <<"\n", "\n", "U+1F4CE", " ">>
            /\ \A i \in 1..n :
                 SubSeq(rest, 9 * i - 4, 9 * i + 1)
                   = <<"[", fm.sources[i].title, "]", "(",
                       fm.sources[i].url, ")">>
            /\ \A i \in 1..(n - 1) :
                 SubSeq(rest, 9 * i + 2, 9 * i + 4) = <<" ", "|", " ">>

\* A body longer than the budget was condensed by the fallback truncation
\* and three sources were cited after it.
C20_Witness ==
  /\ fm.pc = "done"
  /\ Len(cd.text) > cd.maxLength
  /\ cd.result = Truncate(cd.text, cd.maxLength)
  /\ Len(fm.sources) = 3
  /\ Len(fm.final) = cd.maxLength + 28

(***************************************************************************)
(* Specification and properties of the transcript                          *)
(***************************************************************************)

TranscriptInit ==
  /\ NoSessions
  /\ sp = SpIdle
  /\ cd = CdIdle
  /\ ch = ChIdle
  /\ tl = TlIdle
  /\ fm = FmIdle
  /\ tr = [TrIdle EXCEPT !.pc = "created"]

TranscriptNext ==
  \/ TranscriptOpening
  \/ TranscriptTurn
  \/ TranscriptReply
  \/ TranscriptFails

TranscriptSpec == TranscriptInit /\ [][TranscriptNext]_vars

\* C21: when no turn is running the transcript holds at most 20 entries, and
\* they are the entries pushed last, in the order they were pushed.
C21_TranscriptCapped ==
  tr.pc = "ready" =>
    /\ Len(tr.messages) <= HISTORY_CAP
    /\ \A i \in 1..Len(tr.messages) :
         tr.messages[i].n = tr.pushed - Len(tr.messages) + i

\* The entries of a list that are the first with their url, in order
RECURSIVE FirstOccurrences(_, _)
FirstOccurrences(sources, seen) ==
  IF sources = <<>> THEN <<>>
  ELSE IF Head(sources).url \in seen
       THEN FirstOccurrences(Tail(sources), seen)
       ELSE <<Head(sources)>>
            \o FirstOccurrences(Tail(sources),
                                seen \cup {Head(sources).url})

\* C22: the list chatWithTools returns with a text of the model is the first
\* (at most 3) entries of the collected sources that are the first with
\* their url, title included.
C22_FirstOccurrenceWins ==
  (ch.pc = "done" /\ ch.result.content # FallbackText) =>
    LET firsts == FirstOccurrences(ch.sources, {})
    IN ch.result.sources = SubSeq(firsts, 1, Min(Len(firsts), 3))

\* C23: the collected sources are never dropped, a retry starts with those
\* of the attempts before it, and a call that returns a text of the model
\* returns the first (at most 3) distinct urls of the sources of all its
\* attempts, those of earlier attempts first.
C23_SourcesCarriedIntoRetry ==
  /\ [](/\ ch.carried <= Len(ch.sources)
        /\ (ch.pc = "done" /\ ch.result.content # FallbackText) =>
             LET firsts == FirstOccurrences(ch.sources, {})
                 n == Min(Len(firsts), 3)
             IN /\ Len(ch.result.sources) = n
                /\ \A i \in 1..n : ch.result.sources[i].url = firsts[i].url)
  /\ [][
       /\ Len(ch'.sources) >= Len(ch.sources)
       /\ SubSeq(ch'.sources, 1, Len(ch.sources)) = ch.sources
     ]_vars

\* A call whose first attempt collected two sources and ended with empty
\* text, whose second attempt collected a third, and which returned one of
\* the first attempt and the one of the second.
C23_Witness ==
  /\ ch.pc = "done"
  /\ ch.attempts = 2
  /\ ch.carried = 2
  /\ Len(ch.sources) = 3
  /\ Len(ch.result.sources) = 2
  /\ ch.result.sources[1].url = ch.sources[1].url
  /\ ch.result.sources[2].url = ch.sources[3].url

\* C24: a turn classifies its opponent message as non-substantive exactly
\* when the message is empty, or its trimmed lower-case form is shorter than
\* 20, or that form is one of the tokens, x followed by d's, or only periods.
C24_ClassifiesTrimmedForm ==
  [][IsTurn(last') =>
       LET o == last'.obj
           folded == Trim(ToLowerCase(last'.message))
       IN hist'[o][Len(hist'[o])]
            = (\/ last'.message = <<>>
               \/ Len(folded) < MIN_RESPONSE_LENGTH
               \/ folded \in PatternTokens
               \/ IsXd(folded)
               \/ IsDots(folded))]_vars

C26_AnnouncedOnce ==
  [][\A t \in TaskIds :
       (/\ tasks[t].pc \in {"announceWon", "announceWeak"}
        /\ tasks'[t].pc = "idle"
        /\ timers' # timers)
       => heap[tasks[t].obj].status # "ended"]_vars

\* C27: a turn that sets the status to won ends the session before its
\* handler returns, also when the generation or a send fails afterwards: a
\* session has the status won only while a turn on it is still being
\* handled.
C27_WonIsEndedByItsHandler ==
  \A o \in Objs :
     heap[o].status = "won" =>
       \E t \in TaskIds :
          /\ tasks[t].obj = o
          /\ tasks[t].pc \in {"fetch", "analyze", "generate", "announceWon",
                              "announceWeak", "sendResponse"}

\* C28: the deferred removal removes only the session that was ended: a
\* session created under the same id before the timer fires is not deleted,
\* and an active session is never removed from the map.
C28_RemovalSparesActive ==
  [][\A id \in ThreadIds :
       (debates[id] # 0 /\ debates'[id] = 0)
       => heap[debates[id]].status # "active"]_vars

TurnPcs ==
  {"fetch", "analyze", "generate", "announceWon", "announceWeak",
   "sendResponse"}

====
